---- MODULE Spec2Model ----
(***************************************************************************)
(* Model of shmq.circular_buffer.CircularBuffer: a ring buffer whose       *)
(* header (read_index, write_index, max_size: three little-endian uint32)  *)
(* is overlaid on the first 12 bytes of a caller-supplied byte region.     *)
(*                                                                         *)
(* The backing memory is modelled byte for byte as the sequence `buffer`;  *)
(* memory offset o is buffer[o + 1].                                       *)
(***************************************************************************)
EXTENDS Integers, Sequences, FiniteSets, TLC

VARIABLES
    buffer,     \* the backing memory (bytearray handed to __init__)
    attached,   \* a CircularBuffer object has been constructed over buffer
    op,         \* name of the last operation that ran
    arg,        \* argument of the last put (<<>> for the other operations)
    ret,        \* value returned by the last operation
    exc,        \* exception raised by the last operation, "none" if it returned
    pre,        \* history: the backing memory as it was before the last operation
    fifo,       \* history: the items a FIFO contract says are stored
    tracked,    \* history: fifo is known (no eviction has been requested)
    want,       \* history: what the FIFO contract expects of the last put or get
    refill,     \* history: the last put refills the space freed by a get on a full buffer
    rst,        \* position of an attacher inside reset(): which of its stores are done
    before,     \* history: <<read_index, write_index>> when that reset() was entered
    obs         \* position and field reads of a second attacher inside a query

vars == <<buffer, attached, op, arg, ret, exc, pre, fifo, tracked, want, refill,
          rst, before, obs>>

racevars == <<rst, before, obs>>

----------------------------------------------------------------------------
(* Bounds of the model *)

MinRegionLen == 11
MaxRegionLen == 22
MaxField == 6

----------------------------------------------------------------------------
(* Program constants *)

HEADER_SIZE == 12

ITEM_PREFIX_SIZE == 4

MIN_BUFFER_SIZE_off == HEADER_SIZE + 2

MIN_BUFFER_SIZE == HEADER_SIZE + 1

----------------------------------------------------------------------------
(* ctypes.c_uint32 fields overlaid on the byte region (little-endian) *)

Pow256(k) == IF k = 0 THEN 1 ELSE IF k = 1 THEN 256 ELSE IF k = 2 THEN 65536 ELSE 16777216

\* byte k of the uint32 v; every value stored here is in 0..2^31-1, where
\* truncation to 32 bits is the identity
U32Byte(v, k) == (v \div Pow256(k)) % 256

GetU32(buf, off) ==
    buf[off + 1] + 256 * buf[off + 2] + 65536 * buf[off + 3] + 16777216 * buf[off + 4]

SetU32(buf, off, v) ==
    [i \in 1..Len(buf) |->
        IF i >= off + 1 /\ i <= off + 4 THEN U32Byte(v, i - off - 1) ELSE buf[i]]

read_index(buf) == GetU32(buf, 0)

write_index(buf) == GetU32(buf, 4)

max_size(buf) == GetU32(buf, 8)

----------------------------------------------------------------------------
(* Queries *)

full_nowrap(buf) == (write_index(buf) + 1) = read_index(buf)

full(buf) == ((write_index(buf) + 1) % max_size(buf)) = read_index(buf)

empty(buf) == read_index(buf) = write_index(buf)

capacity(buf) == max_size(buf) - 1

size(buf) ==
    IF ~full(buf)
    THEN IF write_index(buf) >= read_index(buf)
         THEN write_index(buf) - read_index(buf)
         ELSE max_size(buf) + read_index(buf) - write_index(buf)
    ELSE capacity(buf)

----------------------------------------------------------------------------
(* Return values *)

\* a second attacher that is in no query and has read no field
ObsIdle == [q |-> "none", pc |-> 0, r |-> -1, w |-> -1, m |-> -1,
            isfull |-> FALSE, ge |-> FALSE, res |-> [kind |-> "None", val |-> 0]]

\* an attacher that is not inside reset()
RstIdle == [pc |-> "idle", landed |-> {}]

NoWant == [kind |-> "none", val |-> <<>>]

RetNone == [kind |-> "None", val |-> 0]

RetBool(b) == [kind |-> "bool", val |-> b]

RetInt(n) == [kind |-> "int", val |-> n]

RetBytes(s) == [kind |-> "bytes", val |-> s]

----------------------------------------------------------------------------
(* The memory regions a caller may hand to the constructor *)

Items == { <<>>, <<97>>, <<97, 98, 99>>, <<120, 120, 120, 120, 120, 120>> }

ItemLists == { <<i>> : i \in Items } \cup { <<i, j>> : i, j \in Items }

RECURSIVE FramedSize(_)
FramedSize(items) ==
    IF items = <<>> THEN 0
    ELSE ITEM_PREFIX_SIZE + Len(Head(items)) + FramedSize(Tail(items))

Frame(item) ==
    <<U32Byte(Len(item), 0), U32Byte(Len(item), 1),
      U32Byte(Len(item), 2), U32Byte(Len(item), 3)>> \o item

RECURSIVE Frames(_)
Frames(items) ==
    IF items = <<>> THEN <<>> ELSE Frame(Head(items)) \o Frames(Tail(items))

ZeroRegion(L) == [i \in 1..L |-> 0]

WithHeader(buf, r, w, m) == SetU32(SetU32(SetU32(buf, 0, r), 4, w), 8, m)

\* bytes written circularly into the payload region (modulus m) from offset start
WriteCircular(buf, m, start, bytes) ==
    [i \in 1..Len(buf) |->
        IF \E k \in 1..Len(bytes) : i = HEADER_SIZE + ((start + k - 1) % m) + 1
        THEN bytes[CHOOSE k \in 1..Len(bytes) : i = HEADER_SIZE + ((start + k - 1) % m) + 1]
        ELSE buf[i]]

\* a region left behind by a prior writer that stored `items` from offset r
Populated(L, r, items) ==
    LET m == L - HEADER_SIZE
    IN  WriteCircular(WithHeader(ZeroRegion(L), r, (r + FramedSize(items)) % m, m),
                      m, r, Frames(items))

ValidEmptyHeader(L, r, w, m) ==
    /\ r = w
    /\ (m = 0 => r = 0)
    /\ (m > 0 => r < m /\ m <= L - HEADER_SIZE)

Init ==
    /\ \E L \in MinRegionLen..MaxRegionLen :
          \/ /\ buffer = ZeroRegion(L)
             /\ fifo = <<>>
             /\ tracked = TRUE
          \/ /\ L >= HEADER_SIZE
             /\ \E r \in 0..MaxField, w \in 0..MaxField, m \in 0..MaxField :
                   /\ buffer = WithHeader(ZeroRegion(L), r, w, m)
                   /\ fifo = <<>>
                   /\ tracked = ValidEmptyHeader(L, r, w, m)
          \/ /\ L >= HEADER_SIZE + 1
             /\ \E r \in 0..(L - HEADER_SIZE - 1), items \in ItemLists :
                   /\ FramedSize(items) <= L - HEADER_SIZE - 1
                   /\ buffer = Populated(L, r, items)
                   /\ fifo = items
                   /\ tracked = TRUE
    /\ attached = FALSE
    /\ op = "init"
    /\ arg = <<>>
    /\ ret = RetNone
    /\ exc = "none"
    /\ pre = buffer
    /\ want = NoWant
    /\ refill = FALSE
    /\ rst = RstIdle
    /\ before = <<0, 0>>
    /\ obs = ObsIdle

----------------------------------------------------------------------------
(* Operations *)

InitHeader_whole_region(buf) ==
    IF max_size(buf) = 0 THEN SetU32(buf, 8, Len(buf)) ELSE buf

InitHeader_zeroing(buf) ==
    IF max_size(buf) = 0
    THEN SetU32(SetU32(SetU32(buf, 8, Len(buf) - HEADER_SIZE), 4, 0), 0, 0)
    ELSE buf

InitHeader_always(buf) == SetU32(buf, 8, Len(buf) - HEADER_SIZE)

\* __init__: max_size is set on memory whose max_size field reads 0
InitHeader(buf) ==
    IF max_size(buf) = 0 THEN SetU32(buf, 8, Len(buf) - HEADER_SIZE) ELSE buf

\* CircularBuffer.__init__
Construct ==
    /\ op' = "construct"
    /\ UNCHANGED racevars
    /\ arg' = <<>>
    /\ ret' = RetNone
    /\ pre' = buffer
    /\ want' = NoWant
    /\ refill' = FALSE
    /\ UNCHANGED <<fifo, tracked>>
    /\ IF Len(buffer) < MIN_BUFFER_SIZE
       THEN /\ exc' = "InsufficientBufferSize"
            /\ UNCHANGED <<buffer, attached>>
       ELSE /\ exc' = "none"
            /\ attached' = TRUE
            /\ buffer' = InitHeader(buffer)

Query(name, value) ==
    /\ attached
    /\ op' = name
    /\ UNCHANGED racevars
    /\ arg' = <<>>
    /\ ret' = value
    /\ exc' = "none"
    /\ pre' = buffer
    /\ want' = NoWant
    /\ refill' = FALSE
    /\ UNCHANGED <<buffer, attached, fifo, tracked>>

Full == Query("full", RetBool(full(buffer)))

Empty == Query("empty", RetBool(empty(buffer)))

Capacity == Query("capacity", RetInt(capacity(buffer)))

Size == Query("size", RetInt(size(buffer)))

ResetHeader_read_only(buf) == SetU32(buf, 0, 0)

ResetHeader_to_end(buf) == SetU32(SetU32(buf, 4, max_size(buf)), 0, 0)

\* reset: write_index = 0, then read_index = 0
ResetHeader(buf) == SetU32(SetU32(buf, 4, 0), 0, 0)

Reset_write_only ==
    /\ attached
    /\ op' = "reset"
    /\ UNCHANGED racevars
    /\ arg' = <<>>
    /\ ret' = RetNone
    /\ exc' = "none"
    /\ pre' = buffer
    /\ buffer' = SetU32(buffer, 4, 0)
    /\ fifo' = <<>>
    /\ tracked' = TRUE
    /\ want' = NoWant
    /\ refill' = FALSE
    /\ UNCHANGED attached

\* CircularBuffer.reset
Reset ==
    /\ attached
    /\ op' = "reset"
    /\ UNCHANGED racevars
    /\ arg' = <<>>
    /\ ret' = RetNone
    /\ exc' = "none"
    /\ pre' = buffer
    /\ buffer' = ResetHeader(buffer)
    /\ fifo' = <<>>
    /\ tracked' = TRUE
    /\ want' = NoWant
    /\ refill' = FALSE
    /\ UNCHANGED attached

\* CircularBuffer.put: the body is the expression statement `...`
Put ==
    /\ attached
    /\ \E item \in Items :
          /\ arg' = item
          /\ IF ITEM_PREFIX_SIZE + Len(item) > capacity(buffer)
             THEN /\ want' = [kind |-> "reject", val |-> fifo]
                  /\ UNCHANGED <<fifo, tracked>>
             ELSE IF tracked /\ FramedSize(Append(fifo, item)) <= capacity(buffer)
                  THEN /\ want' = [kind |-> "append", val |-> fifo]
                       /\ fifo' = Append(fifo, item)
                       /\ tracked' = TRUE
                  ELSE /\ want' = [kind |-> IF tracked THEN "evict" ELSE "none",
                                   val |-> fifo]
                       /\ fifo' = <<>>
                       /\ tracked' = FALSE
    /\ refill' = /\ op = "get"
                  /\ want.kind = "item"
                  /\ full(pre)
                  /\ FramedSize(want.val) = capacity(pre)
                  /\ Len(arg') <= Len(Head(want.val))
    /\ op' = "put"
    /\ UNCHANGED racevars
    /\ ret' = RetNone
    /\ exc' = "none"
    /\ pre' = buffer
    /\ UNCHANGED <<buffer, attached>>

\* CircularBuffer.get: the body is the expression statement `...`
Get ==
    /\ attached
    /\ op' = "get"
    /\ UNCHANGED racevars
    /\ arg' = <<>>
    /\ ret' = RetNone
    /\ exc' = "none"
    /\ pre' = buffer
    /\ want' = IF tracked /\ fifo # <<>>
               THEN [kind |-> "item", val |-> fifo]
               ELSE NoWant
    /\ refill' = FALSE
    /\ fifo' = IF fifo = <<>> THEN fifo ELSE Tail(fifo)
    /\ UNCHANGED <<buffer, attached, tracked>>

\* CircularBuffer has no attribute available_size: the call raises
AvailableSize ==
    /\ attached
    /\ op' = "available_size"
    /\ UNCHANGED racevars
    /\ arg' = <<>>
    /\ ret' = RetNone
    /\ exc' = "AttributeError"
    /\ pre' = buffer
    /\ want' = NoWant
    /\ refill' = FALSE
    /\ UNCHANGED <<buffer, attached, fifo, tracked>>

Next ==
    \/ Construct
    \/ Full
    \/ Empty
    \/ Capacity
    \/ Size
    \/ Reset
    \/ Put
    \/ Get
    \/ AvailableSize

Spec == Init /\ [][Next]_vars

\* the behaviours that start from fresh (all-zero) memory
InitFresh ==
    /\ Init
    /\ buffer = ZeroRegion(Len(buffer))

SpecFresh == InitFresh /\ [][Next]_vars

----------------------------------------------------------------------------
(* Vocabulary of the properties *)

InRange(buf) ==
    /\ max_size(buf) >= 1
    /\ read_index(buf) < max_size(buf)
    /\ write_index(buf) < max_size(buf)

\* in-range indices and a payload region that lies inside the backing memory
Sound(buf) == InRange(buf) /\ max_size(buf) <= Len(buf) - HEADER_SIZE

\* occupied payload bytes of a header with in-range indices
Occupied(buf) == (write_index(buf) + max_size(buf) - read_index(buf)) % max_size(buf)

PayloadByte(buf, o) == buf[HEADER_SIZE + (o % max_size(buf)) + 1]

PrefixAt(buf, o) ==
    PayloadByte(buf, o) + 256 * PayloadByte(buf, o + 1)
        + 65536 * PayloadByte(buf, o + 2) + 16777216 * PayloadByte(buf, o + 3)

\* the framed items found in `remaining` payload bytes starting at offset pos
RECURSIVE StoredFrom(_, _, _)
StoredFrom(buf, pos, remaining) ==
    IF remaining < ITEM_PREFIX_SIZE \/ remaining < ITEM_PREFIX_SIZE + PrefixAt(buf, pos)
    THEN <<>>
    ELSE LET n == PrefixAt(buf, pos)
         IN  <<[k \in 1..n |-> PayloadByte(buf, pos + ITEM_PREFIX_SIZE + k - 1)]>>
                 \o StoredFrom(buf, (pos + ITEM_PREFIX_SIZE + n) % max_size(buf),
                               remaining - ITEM_PREFIX_SIZE - n)

Stored(buf) == StoredFrom(buf, read_index(buf), Occupied(buf))

Suffix(items, k) == SubSeq(items, k, Len(items))

\* offset of the k-th of `items` stored from read_index of buf (k = Len + 1: their end)
ItemStart(buf, items, k) ==
    (read_index(buf) + FramedSize(SubSeq(items, 1, k - 1))) % max_size(buf)

\* the memory after framing `item` at write_index with no eviction
Framed(buf, item) ==
    WriteCircular(
        SetU32(buf, 4, (write_index(buf) + ITEM_PREFIX_SIZE + Len(item)) % max_size(buf)),
        max_size(buf), write_index(buf), Frame(item))

FreshConstructed ==
    /\ op = "construct"
    /\ exc = "none"
    /\ pre = ZeroRegion(Len(pre))

----------------------------------------------------------------------------
(* Properties *)

\* C1: when items were put with no eviction (their framed bytes never exceed
\* capacity()), each get returns the oldest item not yet returned, with the
\* same bytes, and the buffer is empty() once all of them have been returned.
C1_FifoRoundTrip ==
    (op = "get" /\ want.kind = "item") =>
        /\ exc = "none"
        /\ ret = RetBytes(Head(want.val))
        /\ (Len(want.val) = 1 => empty(buffer))

\* C2: put(item) with len(item) + 4 > capacity() raises InsufficientSpace and
\* leaves the header and the payload bytes as they were.
C2_PutTooLargeRaises ==
    (op = "put" /\ Len(arg) + ITEM_PREFIX_SIZE > capacity(pre)) =>
        /\ exc = "InsufficientSpace"
        /\ buffer = pre

\* C3: get() on a buffer with read_index = write_index raises Empty and leaves
\* the header and the payload bytes as they were, every time it is called.
C3_GetOnEmptyRaises ==
    (op = "get" /\ empty(pre)) =>
        /\ exc = "Empty"
        /\ buffer = pre

\* C4: a put that fits the capacity but not the free space evicts whole oldest
\* items only: afterwards read_index is at the start of a previously stored item
\* (or of the new item) and the stored items are the matching suffix of the
\* previously stored items followed by the new item.
C4_EvictsWholeItems ==
    (op = "put" /\ want.kind = "evict" /\ Sound(pre)) =>
        /\ exc = "none"
        /\ InRange(buffer)
        /\ \E k \in 1..(Len(want.val) + 1) :
              /\ read_index(buffer) = ItemStart(pre, want.val, k)
              /\ Stored(buffer) = Append(Suffix(want.val, k), arg)

\* C5: a put of n bytes that needs no eviction writes the little-endian prefix n
\* and the n bytes circularly from the old write_index, sets write_index to
\* (old write_index + 4 + n) mod max_size and changes nothing else.
C5_PutWritesFrame ==
    (/\ op = "put"
     /\ Sound(pre)
     /\ Len(arg) + ITEM_PREFIX_SIZE <= capacity(pre) - Occupied(pre)) =>
        /\ exc = "none"
        /\ buffer = Framed(pre, arg)

\* C6: with in-range indices size() is capacity() when full(), otherwise
\* write_index - read_index when write_index >= read_index and
\* max_size - read_index + write_index when write_index < read_index.
C6_SizeFormula ==
    (op = "size" /\ InRange(pre)) =>
        ret = RetInt(IF full(pre) THEN capacity(pre)
                     ELSE IF write_index(pre) >= read_index(pre)
                          THEN write_index(pre) - read_index(pre)
                          ELSE max_size(pre) - read_index(pre) + write_index(pre))

\* C7 as stated: right after a construction over all-zero memory and right
\* after reset(), empty() is true and full() is false.
C7_EmptyNotFull ==
    (FreshConstructed \/ op = "reset") =>
        /\ empty(buffer)
        /\ ~full(buffer)

\* C7 amended: right after a construction over all-zero memory and right after
\* reset(), empty() is true, and full() is false exactly when max_size >= 2
\* (it is true when max_size = 1).
C7_EmptyAndFullOnlyAtOne ==
    (FreshConstructed \/ op = "reset") =>
        /\ empty(buffer)
        /\ (full(buffer) <=> max_size(buffer) = 1)

C7_Witness ==
    /\ op = "reset"
    /\ ~empty(pre)
    /\ max_size(buffer) >= 2
    /\ ~full(buffer)

\* C8: over an all-zero region of the minimum length HEADER_SIZE + 1 the new
\* buffer is full() and empty() with capacity() = 0 and size() = 0.
C8_MinimumRegion ==
    (FreshConstructed /\ Len(buffer) = HEADER_SIZE + 1) =>
        /\ full(buffer)
        /\ empty(buffer)
        /\ capacity(buffer) = 0
        /\ size(buffer) = 0

C8_Witness ==
    /\ FreshConstructed
    /\ Len(buffer) = HEADER_SIZE + 1
    /\ max_size(buffer) = 1

\* C9: a construction over memory whose max_size is non-zero changes no byte of
\* it, and size() of the new object is the number of occupied payload bytes.
C9_ReattachPreserves ==
    (op = "construct" /\ exc = "none" /\ max_size(pre) # 0 /\ Sound(pre)) =>
        /\ buffer = pre
        /\ size(buffer) = Occupied(pre)

\* C10: a construction fails with InsufficientBufferSize exactly when the region
\* is shorter than HEADER_SIZE + 1 = 13 bytes, a failed construction changes no
\* byte of the region, and every longer region is accepted.
C10_ConstructionLength ==
    op = "construct" =>
        /\ (exc = "InsufficientBufferSize" <=> Len(pre) < 13)
        /\ (exc # "none" => buffer = pre /\ ~attached)
        /\ (Len(pre) >= 13 => exc = "none" /\ attached)

C10_Witness ==
    /\ op = "construct"
    /\ exc = "InsufficientBufferSize"
    /\ Len(buffer) = 12

C12_ResetFrame ==
    op = "reset" =>
        /\ read_index(buffer) = 0
        /\ write_index(buffer) = 0
        /\ Len(buffer) = Len(pre)
        /\ \A i \in 9..Len(buffer) : buffer[i] = pre[i]
        /\ size(buffer) = 0
        /\ (read_index(pre) = 0 /\ write_index(pre) = 0 => buffer = pre)

C12_Witness ==
    /\ op = "reset"
    /\ read_index(pre) # 0
    /\ write_index(pre) # 0
    /\ \E i \in 13..Len(buffer) : buffer[i] # 0

\* C13: available_size() returns capacity() - size() - ITEM_PREFIX_SIZE.
C13_AvailableSize ==
    op = "available_size" =>
        /\ exc = "none"
        /\ ret = RetInt(capacity(pre) - size(pre) - ITEM_PREFIX_SIZE)

\* C14: available_size() returns 0 whenever the buffer is full().
C14_AvailableSizeFull ==
    (op = "available_size" /\ full(pre)) =>
        /\ exc = "none"
        /\ ret = RetInt(0)

C16_IndicesInRange ==
    attached => InRange(buffer)

C16_Witness ==
    /\ attached
    /\ op = "put"
    /\ want.kind = "append"
    /\ max_size(buffer) >= 2

IsEmpty(buf) == read_index(buf) = write_index(buf)

IsFull(buf) == ((write_index(buf) + 1) % max_size(buf)) = read_index(buf)

IsPartial(buf) == 0 < size(buf) /\ size(buf) < capacity(buf)

\* C17: a successful put from Empty or Partial ends in Partial or Full and not
\* in Empty, a successful get from Full or Partial ends in Partial or Empty and
\* not in Full, and reset ends in Empty.
C17_StateMachine ==
    /\ (/\ op = "put"
        /\ exc = "none"
        /\ Sound(pre)
        /\ Len(arg) + ITEM_PREFIX_SIZE <= capacity(pre)
        /\ (IsEmpty(pre) \/ IsPartial(pre))) =>
            /\ (IsPartial(buffer) \/ IsFull(buffer))
            /\ ~IsEmpty(buffer)
    /\ (/\ op = "get"
        /\ exc = "none"
        /\ Sound(pre)
        /\ ~IsEmpty(pre)
        /\ (IsFull(pre) \/ IsPartial(pre))) =>
            /\ (IsPartial(buffer) \/ IsEmpty(buffer))
            /\ ~IsFull(buffer)
    /\ (op = "reset" => IsEmpty(buffer))

\* C18 as stated: a construction over memory whose max_size reads 0 sets
\* read_index and write_index to 0 and max_size to L - HEADER_SIZE.
C18_InitZeroesIndices ==
    (op = "construct" /\ exc = "none" /\ max_size(pre) = 0) =>
        /\ read_index(buffer) = 0
        /\ write_index(buffer) = 0
        /\ max_size(buffer) = Len(pre) - HEADER_SIZE

\* C18 amended: a construction over memory whose max_size reads 0 sets max_size
\* to L - HEADER_SIZE and leaves read_index and write_index as it found them.
C18_InitKeepsIndices ==
    (op = "construct" /\ exc = "none" /\ max_size(pre) = 0) =>
        /\ read_index(buffer) = read_index(pre)
        /\ write_index(buffer) = write_index(pre)
        /\ max_size(buffer) = Len(pre) - HEADER_SIZE

C18_Witness ==
    /\ op = "construct"
    /\ exc = "none"
    /\ max_size(pre) = 0
    /\ read_index(buffer) # 0
    /\ write_index(buffer) # 0

\* C19: with max_size >= 1 and both indices below max_size,
\* 0 <= size() <= capacity().
C19_SizeWithinCapacity ==
    (attached /\ InRange(buffer)) =>
        /\ 0 <= size(buffer)
        /\ size(buffer) <= capacity(buffer)

HeaderZero(buf) == read_index(buf) = 0 /\ write_index(buf) = 0 /\ max_size(buf) = 0

\* C20 as stated: after every successful construction over a region of length
\* L, max_size <= L - HEADER_SIZE and both indices are below max_size.
C20_PayloadInsideRegion ==
    (op = "construct" /\ exc = "none") => Sound(buffer)

\* C20 amended: after a successful construction max_size <= L - HEADER_SIZE and
\* both indices are below max_size when the header found was all-zero or
\* already within these bounds; a header with a non-zero max_size is kept as
\* found, whatever its values.
C20_PayloadInsideWhenSound ==
    (op = "construct" /\ exc = "none") =>
        /\ (HeaderZero(pre) \/ Sound(pre) => Sound(buffer))
        /\ (max_size(pre) # 0 => read_index(buffer) = read_index(pre)
                                 /\ write_index(buffer) = write_index(pre)
                                 /\ max_size(buffer) = max_size(pre))

C20_Witness ==
    /\ op = "construct"
    /\ exc = "none"
    /\ Sound(pre)
    /\ read_index(pre) # 0
    /\ max_size(pre) < Len(pre) - HEADER_SIZE

----------------------------------------------------------------------------
(* Two attachers of the same memory: one inside reset(), one inside a query.  *)
(* Nothing synchronises them, so every field store and every field load is   *)
(* a step of its own, and a second process may see the two stores of reset()  *)
(* land in either order.                                                      *)

ResetStoreWrite_one(buf) == SetU32(buf, 4, 1)

\* self._header.write_index = 0
ResetStoreWrite(buf) == SetU32(buf, 4, 0)

\* self._header.read_index = 0
ResetStoreRead(buf) == SetU32(buf, 0, 0)

\* the shared regions: fresh memory or a header within its bounds
InitRace ==
    /\ Init
    /\ Len(buffer) >= MIN_BUFFER_SIZE
    /\ (HeaderZero(buffer) \/ Sound(buffer))

\* both attachers construct their object
Attach ==
    /\ rst.pc = "idle"
    /\ obs.pc = 0
    /\ Construct

\* an attacher enters reset()
ResetEnter ==
    /\ attached
    /\ rst.pc = "idle"
    /\ rst' = [pc |-> "running", landed |-> {}]
    /\ before' = <<read_index(buffer), write_index(buffer)>>
    /\ UNCHANGED <<buffer, attached, op, arg, ret, exc, pre, fifo, tracked, want,
                   refill, obs>>

Landed(field) ==
    [pc |-> IF rst.landed \cup {field} = {"w", "r"} THEN "done" ELSE "running",
     landed |-> rst.landed \cup {field}]

\* the store to write_index becomes visible
ResetWriteIndex ==
    /\ rst.pc = "running"
    /\ "w" \notin rst.landed
    /\ buffer' = ResetStoreWrite(buffer)
    /\ rst' = Landed("w")
    /\ UNCHANGED <<attached, op, arg, ret, exc, pre, fifo, tracked, want, refill,
                   before, obs>>

\* the store to read_index becomes visible
ResetReadIndex ==
    /\ rst.pc = "running"
    /\ "r" \notin rst.landed
    /\ buffer' = ResetStoreRead(buffer)
    /\ rst' = Landed("r")
    /\ UNCHANGED <<attached, op, arg, ret, exc, pre, fifo, tracked, want, refill,
                   before, obs>>

\* the other attacher calls empty(), full() or size()
ObsCall ==
    /\ attached
    /\ obs.pc = 0
    /\ \E q \in {"empty", "full", "size"} :
          obs' = [ObsIdle EXCEPT !.q = q, !.pc = 1]
    /\ UNCHANGED <<buffer, attached, op, arg, ret, exc, pre, fifo, tracked, want,
                   refill, rst, before>>

\* the header field the observer loads at its position, in Python's
\* left-to-right evaluation order
ObsField(o) ==
    IF o.q = "empty" THEN (IF o.pc = 1 THEN "r" ELSE "w")
    ELSE IF o.pc = 1 THEN "w"
    ELSE IF o.pc = 2 THEN "m"
    ELSE IF o.pc = 3 THEN "r"
    ELSE IF o.pc = 4 THEN (IF o.isfull THEN "m" ELSE "w")
    ELSE IF o.pc = 5 THEN "r"
    ELSE IF o.pc = 6 THEN (IF o.ge THEN "w" ELSE "m")
    ELSE IF o.pc = 7 THEN "r"
    ELSE "w"

\* the observer's loads so far, a new expression forgetting the previous pair
ObsLoad(o, buf) ==
    LET c == IF o.q = "size" /\ o.pc \in {4, 6}
             THEN [o EXCEPT !.r = -1, !.w = -1]
             ELSE o
    IN  IF ObsField(o) = "r" THEN [c EXCEPT !.r = read_index(buf)]
        ELSE IF ObsField(o) = "w" THEN [c EXCEPT !.w = write_index(buf)]
        ELSE [c EXCEPT !.m = max_size(buf)]

ObsReturn(o, value) == [o EXCEPT !.pc = 0, !.res = value]

ObsGoOn(o) == [o EXCEPT !.pc = o.pc + 1]

\* one field load of empty() (line 61), full() (line 53) or size() (lines 77-83)
ObsRead ==
    /\ obs.pc > 0
    /\ LET o == ObsLoad(obs, buffer)
       IN  obs' =
             IF o.q = "empty"
             THEN IF o.pc = 2 THEN ObsReturn(o, RetBool(o.r = o.w)) ELSE ObsGoOn(o)
             ELSE IF o.q = "full"
             THEN IF o.pc = 3
                  THEN ObsReturn(o, RetBool(((o.w + 1) % o.m) = o.r))
                  ELSE ObsGoOn(o)
             ELSE IF o.pc = 3
                  THEN ObsGoOn([o EXCEPT !.isfull = (((o.w + 1) % o.m) = o.r)])
             ELSE IF o.pc = 4 /\ o.isfull THEN ObsReturn(o, RetInt(o.m - 1))
             ELSE IF o.pc = 5 THEN ObsGoOn([o EXCEPT !.ge = (o.w >= o.r)])
             ELSE IF o.pc = 7 /\ o.ge THEN ObsReturn(o, RetInt(o.w - o.r))
             ELSE IF o.pc = 8 THEN ObsReturn(o, RetInt(o.m + o.r - o.w))
             ELSE ObsGoOn(o)
    /\ UNCHANGED <<buffer, attached, op, arg, ret, exc, pre, fifo, tracked, want,
                   refill, rst, before>>

NextRace ==
    \/ Attach
    \/ ResetEnter
    \/ ResetWriteIndex
    \/ ResetReadIndex
    \/ ObsCall
    \/ ObsRead

SpecRace == InitRace /\ [][NextRace]_vars

\* <<read_index, write_index>> from before the reset
OldPair ==
    IF rst.pc = "idle" THEN <<read_index(buffer), write_index(buffer)>> ELSE before

ObsSeesPair == obs.r # -1 /\ obs.w # -1

\* C21 as stated: an attacher evaluating empty(), full() or size() while another
\* runs reset() only ever pairs the two indices from before the reset or the
\* pair (0, 0), never a pair in which only one index has been zeroed.
C21_NoIntermediatePair ==
    ObsSeesPair => <<obs.r, obs.w>> \in {OldPair, <<0, 0>>}

\* C21 amended: each index the observer loads is either its value from before
\* the reset or 0; the two loads are independent, so a pair in which only one
\* index has been zeroed can be seen.
C21_EachIndexOldOrZero ==
    /\ (obs.r # -1 => obs.r \in {OldPair[1], 0})
    /\ (obs.w # -1 => obs.w \in {OldPair[2], 0})

C21_Witness ==
    /\ rst.pc = "running"
    /\ obs.q = "empty"
    /\ ObsSeesPair
    /\ obs.r = OldPair[1]
    /\ obs.r # 0
    /\ OldPair[2] # 0
    /\ obs.w = 0

====
